---- MODULE Spec2Model ----
(***************************************************************************)
(* Client-side session lifecycle of PlugBot's dashboard: the credential    *)
(* store (localStorage), the AuthProvider operations (checkAuth, login,    *)
(* logout, register, refreshToken) running on the browser's event loop,    *)
(* and the ProtectedRoute guard.                                           *)
(*                                                                         *)
(* One action is one event-loop step: the synchronous code of an async     *)
(* function from its start, or from the resumption of an await, up to the  *)
(* next await or to its end.  The backend is a black box: every response   *)
(* is a nondeterministic choice among success, HTTP error and network      *)
(* failure.                                                                *)
(***************************************************************************)
EXTENDS Integers, Sequences, FiniteSets, TLC

VARIABLES
    store,        \* localStorage: access_token and refresh_token (NULL = key absent)
    user,         \* AuthProvider state `user`
    loading,      \* AuthProvider state `loading`
    kind,         \* kind[p]: the operation process p runs
    pc,           \* pc[p]: where process p is suspended
    req,          \* req[p]: the request process p awaits
    calls,        \* calls[p]: the endpoints process p has called, in order
    results,      \* results[p]: how each of those calls ended, "ok" or "failed"
    loggedOutSince, \* loggedOutSince[p]: a logout cleared the session while
                  \* the request p awaits was in flight
    snapBefore,   \* snapBefore[p]: store and session when p was invoked
    snapAfter,    \* snapAfter[p]: store and session when p settled
    pathname,     \* usePathname(): the current location's path
    search,       \* useSearchParams().toString(): the current query string
    locale,       \* useLocale()
    effectPending,\* the guard's effect has a changed dependency and will run
    redirects,    \* number of router.replace calls issued by the guard
    lastRun,      \* the guard's last effect run: what it saw and the url it replaced to
    apiUrl,       \* process.env.NEXT_PUBLIC_API_URL || 'http://localhost:8531/api/v1'
    inBrowser,    \* typeof window !== 'undefined' where the client module is loaded
    pageProtocol, \* window.location.protocol
    baseUrl,      \* ApiClient.baseUrl, NULL until the constructor has run
    sent,         \* the fetch calls request() has issued, in order
    answer,       \* the answer to the last of them: a response or a rejection
    answered,     \* how many of them have been answered
    thrown,       \* the message of the error the last request() threw, NULL if
                  \* it returned
    options,      \* options.headers of a request() call made with caller headers
    headers       \* the headers object that call passed to fetch, <<>> before it

vars == <<store, user, loading, kind, pc, req, calls, results, loggedOutSince,
          snapBefore, snapAfter,
          pathname, search, locale, effectPending, redirects, lastRun,
          apiUrl, inBrowser, pageProtocol, baseUrl, sent, answer, answered, thrown,
          options, headers>>


----------------------------------------------------------------------------
(* Bounds *)

\* number of user-initiated operations (login, logout, register, refreshToken)
MaxOps == 2
\* number of redirects of the guard that a run follows
MaxRedirects == 3
\* number of headers a caller of request() supplies
MaxCallerHeaders == 2

----------------------------------------------------------------------------
(* Values *)

NULL == "null"

\* the token pairs the backend issues (POST /auth/login, POST /auth/refresh)
Pairs == {[access_token |-> "a1", refresh_token |-> "r1"],
          [access_token |-> "a2", refresh_token |-> "r2"]}
\* the profiles GET /auth/me returns
Profiles == {"u1"}

CheckAuthProc == 0
Ops == 1..MaxOps
Procs == {CheckAuthProc} \cup Ops

EmptyStore == [access_token |-> NULL, refresh_token |-> NULL]
NoReq == [endpoint |-> "none", bearer |-> NULL]
\* request(endpoint) called without options: options?.headers is undefined
NoOptions == [form |-> "undefined", entries |-> <<>>]
NoSnap == [store |-> EmptyStore, user |-> NULL, loading |-> TRUE]
NoRun == [ran |-> FALSE, user |-> NULL, loading |-> TRUE,
          pathname |-> "", search |-> "", url |-> NULL, rendered |-> "spinner"]

----------------------------------------------------------------------------
(* Strings *)

\* String.prototype.startsWith
StartsWith(s, prefix) ==
    /\ Len(s) >= Len(prefix)
    /\ SubSeq(s, 1, Len(prefix)) = prefix

\* the characters encodeURIComponent escapes, among those of the model's urls
Escaped(c) ==
    CASE c = "/" -> "%2F"
      [] c = "?" -> "%3F"
      [] c = "=" -> "%3D"
      [] c = "&" -> "%26"
      [] c = "%" -> "%25"
      [] OTHER -> c

RECURSIVE encodeURIComponent(_)
encodeURIComponent(s) ==
    IF Len(s) = 0 THEN ""
    ELSE Escaped(SubSeq(s, 1, 1)) \o encodeURIComponent(SubSeq(s, 2, Len(s)))

\* position of the first "?" of a url, 0 when it has none
RECURSIVE QueryAt(_, _)
QueryAt(url, i) ==
    IF i > Len(url) THEN 0
    ELSE IF SubSeq(url, i, i) = "?" THEN i
    ELSE QueryAt(url, i + 1)

\* the location router.replace(url) navigates to: usePathname() and
\* useSearchParams().toString() after it
UrlPathname(url) ==
    IF QueryAt(url, 1) = 0 THEN url ELSE SubSeq(url, 1, QueryAt(url, 1) - 1)
UrlSearch(url) ==
    IF QueryAt(url, 1) = 0 THEN "" ELSE SubSeq(url, QueryAt(url, 1) + 1, Len(url))

\* String.prototype.endsWith
EndsWith(s, suffix) ==
    /\ Len(s) >= Len(suffix)
    /\ SubSeq(s, Len(s) - Len(suffix) + 1, Len(s)) = suffix

\* String.prototype.includes
Includes(s, sub) ==
    \E i \in 1..(Len(s) - Len(sub) + 1) : SubSeq(s, i, i + Len(sub) - 1) = sub

\* position of the first occurrence of sub in s at or after i, 0 when none
RECURSIVE IndexFrom(_, _, _)
IndexFrom(s, sub, i) ==
    IF i + Len(sub) - 1 > Len(s) THEN 0
    ELSE IF SubSeq(s, i, i + Len(sub) - 1) = sub THEN i
    ELSE IndexFrom(s, sub, i + 1)

\* the scheme of an absolute url, with its colon: "http:" or "https:"
UrlScheme(url) == SubSeq(url, 1, IndexFrom(url, ":", 1))

\* the authority of an absolute url, between "//" and the next "/" (or the end)
UrlAuthority(url) ==
    LET from == IndexFrom(url, "//", 1) + 2
        slash == IndexFrom(url, "/", from)
    IN  SubSeq(url, from, IF slash = 0 THEN Len(url) ELSE slash - 1)

\* the host name of an absolute url: its authority without the port
UrlHost(url) ==
    LET authority == UrlAuthority(url)
        colon == IndexFrom(authority, ":", 1)
    IN  IF colon = 0 THEN authority ELSE SubSeq(authority, 1, colon - 1)

----------------------------------------------------------------------------
(* Credential store: window.localStorage *)

getItem(s, key) == s[key]

setItem(s, key, value) == [s EXCEPT ![key] = value]

removeItem(s, key) == [s EXCEPT ![key] = NULL]

\* the store holds a token pair / holds no token
HasPair(s) == s.access_token # NULL /\ s.refresh_token # NULL
Absent(s) == s.access_token = NULL /\ s.refresh_token = NULL

----------------------------------------------------------------------------
(* ApiClient constructor: the base url *)

\* the fallback of line 7
DefaultApiUrl == "http://localhost:8531/api/v1"

\* process.env.NEXT_PUBLIC_API_URL || DefaultApiUrl
ApiUrlOf(env) == IF env # NULL /\ env # "" THEN env ELSE DefaultApiUrl

\* a constructor that never takes the url for a local one
isLocalhost_Never(url) == FALSE

\* lines 13-15: apiUrl.includes('localhost') || apiUrl.includes('127.0.0.1')
isLocalhost(url) == Includes(url, "localhost") \/ Includes(url, "127.0.0.1")

\* line 19: apiUrl.replace(/^http:/, 'https:')
UpgradeScheme(url) ==
    IF StartsWith(url, "http:") THEN "https:" \o SubSeq(url, 6, Len(url)) ELSE url

\* line 31: baseUrl.replace(/\/$/, '')
StripTrailingSlash(url) ==
    IF Len(url) > 0 /\ SubSeq(url, Len(url), Len(url)) = "/"
    THEN SubSeq(url, 1, Len(url) - 1)
    ELSE url

\* lines 12-31: the base url the constructor resolves
ResolveBaseUrl(url, browser, protocol) ==
    StripTrailingSlash(
        IF browser /\ protocol = "https:" /\ ~isLocalhost(url)
        THEN UpgradeScheme(url)
        ELSE url)

----------------------------------------------------------------------------
(* Request pipeline: ApiClient.request *)

\* getAuthHeaders: the Authorization header's token, read at dispatch
getAuthHeaders(s) == getItem(s, "access_token")

\* fetch(url, {headers: {...getAuthHeaders()}}) for one endpoint
request(endpoint, s) == [endpoint |-> endpoint, bearer |-> getAuthHeaders(s)]

\* The outcomes of a call: response.ok, !response.ok, or fetch rejecting
Outcomes == {"ok", "http", "net"}
Failures == {"http", "net"}

\* GET /auth/me answers a profile only to a request that carries a bearer token
BackendMayAccept(r) == r.endpoint = "/auth/me" => r.bearer # NULL

\* line 46: endpoint.startsWith('/') ? endpoint : `/${endpoint}`
NormalizeEndpoint(endpoint) ==
    IF StartsWith(endpoint, "/") THEN endpoint ELSE "/" \o endpoint

\* the HTTP statuses the backend answers with
Statuses == {200, 204, 401, 500}
\* the detail texts of the backend's error bodies
Details == {"Invalid credentials"}

\* A response body, by what response.json() makes of it: a rejection (the
\* body is not JSON), the value null, or an object, with or without detail
NotJson == [json |-> "invalid", detail |-> NULL]
JsonNull == [json |-> "null", detail |-> NULL]
JsonObject(detail) == [json |-> "object", detail |-> detail]
Bodies == {NotJson, JsonNull, JsonObject(NULL)} \cup {JsonObject(d) : d \in Details}

\* what the await of fetch gives: a response, or a rejection (network failure)
Responses == [arrived : {TRUE}, status : Statuses, body : Bodies]
FetchRejected == [arrived |-> FALSE, status |-> 0, body |-> NotJson]
Answers == Responses \cup {FetchRejected}
NoResponse == [arrived |-> FALSE, status |-> -1, body |-> NotJson]

\* response.ok
ok(r) == r.status >= 200 /\ r.status < 300

\* the messages of the errors the runtime raises
FetchFailedMessage == "Failed to fetch"
NullDetailMessage == "Cannot read properties of null (reading 'detail')"
JsonSyntaxMessage == "Unexpected token < in JSON"

\* an error body read without the fallback of the catch
ErrorBody_NoFallback(body) == body

\* line 66: await response.json().catch(() => ({detail: 'Unknown error'}))
ErrorBody(body) ==
    IF body.json = "invalid" THEN JsonObject("Unknown error") ELSE body

\* a generic message that leaves the status out
HttpStatusMessage_NoStatus(status) == "HTTP error"

\* `HTTP ${response.status}`
HttpStatusMessage(status) == "HTTP " \o ToString(status)

\* an error that reports the status whatever the body says
ErrorMessage_StatusOnly(r) == HttpStatusMessage(r.status)

\* line 67: new Error(error.detail || `HTTP ${response.status}`); reading
\* detail of null raises a TypeError instead
ErrorMessage(r) ==
    LET error == ErrorBody(r.body) IN
    IF error.json = "null" THEN NullDetailMessage
    ELSE IF error.detail # NULL /\ error.detail # "" THEN error.detail
    ELSE HttpStatusMessage(r.status)

\* lines 54-74: the message of the error request() throws on answer r, NULL
\* when it returns
requestThrows(r) ==
    IF ~r.arrived THEN FetchFailedMessage
    ELSE IF ~ok(r) THEN ErrorMessage(r)
    ELSE IF r.status = 204 THEN NULL
    ELSE IF r.body.json = "invalid" THEN JsonSyntaxMessage
    ELSE NULL

Snap == [store |-> store, user |-> user, loading |-> loading]
SnapOf(s, u, l) == [store |-> s, user |-> u, loading |-> l]

----------------------------------------------------------------------------
(* AuthProvider: the synchronous blocks of its async functions *)

\* a login that persists the access token only
LoginPersist_AccessOnly(s, response) ==
    setItem(s, "access_token", response.access_token)

\* login, lines 254-255: persist the token pair of the login response
LoginPersist(s, response) ==
    setItem(setItem(s, "access_token", response.access_token),
            "refresh_token", response.refresh_token)

\* refreshToken, lines 285-286: persist the token pair of the refresh response
RefreshPersist(s, response) ==
    setItem(setItem(s, "access_token", response.access_token),
            "refresh_token", response.refresh_token)

\* a finally block that forgets the refresh token
LogoutClear_KeepsRefresh(s) == removeItem(s, "access_token")

\* logout, lines 266-267: the finally block's removals
LogoutClear(s) == removeItem(removeItem(s, "access_token"), "refresh_token")

\* a catch block that forgets the refresh token
CheckAuthClear_AccessOnly(s) == removeItem(s, "access_token")

\* checkAuth, lines 245-246: the catch block's removals
CheckAuthClear(s) == removeItem(removeItem(s, "access_token"), "refresh_token")

\* login, line 258: setUser(userData), applied to whatever the session is now
LoginSetUser(u, userData) == userData

\* checkAuth, line 243: setUser(userData), applied to whatever the session is now
CheckAuthSetUser(u, userData) == userData

\* a refreshToken without the check of line 282
RefreshTokenMissing_Never(s) == FALSE

\* refreshToken, lines 281-282: the stored refresh token, and whether it is usable
RefreshTokenMissing(s) == getItem(s, "refresh_token") = NULL

\* the user may start an operation once the provider's mount effect has run;
\* operations take the process numbers in order
MayStart(p) ==
    /\ pc[CheckAuthProc] # "init"
    /\ pc[p] = "idle"
    /\ \A q \in Ops : q < p => pc[q] # "idle"

\* p dispatches a request to endpoint e from store s and suspends at label l
Dispatch(p, e, s, l) ==
    /\ req' = [req EXCEPT ![p] = request(e, s)]
    /\ calls' = [calls EXCEPT ![p] = Append(@, e)]
    /\ pc' = [pc EXCEPT ![p] = l]
    /\ loggedOutSince' = [loggedOutSince EXCEPT ![p] = FALSE]

\* the call p awaits has ended with r, "ok" or "failed"
Answered(p, r) == results' = [results EXCEPT ![p] = Append(@, r)]

\* p settles (its promise resolves or rejects) in the state (s, u, l)
Settle(p, how, s, u, l) ==
    /\ req' = [req EXCEPT ![p] = NoReq]
    /\ pc' = [pc EXCEPT ![p] = how]
    /\ snapAfter' = [snapAfter EXCEPT ![p] = SnapOf(s, u, l)]

Invoke(p, k) ==
    /\ kind' = [kind EXCEPT ![p] = k]
    /\ snapBefore' = [snapBefore EXCEPT ![p] = Snap]

guardUnchanged == UNCHANGED <<locale, redirects, lastRun>>

\* the api client is left alone: its configuration and its request log
clientUnchanged ==
    UNCHANGED <<apiUrl, inBrowser, pageProtocol, baseUrl, sent, answer,
                answered, thrown, options, headers>>

\* a change of user, loading or location re-runs the guard's effect
Rerender(u, l, path, q) ==
    effectPending' = (effectPending \/ u # user \/ l # loading
                        \/ path # pathname \/ q # search)

\* router.push(path) of the provider
Push(u, l, path) ==
    /\ pathname' = path
    /\ search' = ""
    /\ Rerender(u, l, path, "")

Stay(u, l) ==
    /\ UNCHANGED <<pathname, search>>
    /\ Rerender(u, l, pathname, search)

(* checkAuth, lines 234-250 *)

\* no access token stored: setLoading(false) and return
CheckAuthNoToken ==
    /\ pc[CheckAuthProc] = "init"
    /\ getItem(store, "access_token") = NULL
    /\ loading' = FALSE
    /\ Settle(CheckAuthProc, "resolved", store, user, FALSE)
    /\ Stay(user, FALSE)
    /\ UNCHANGED <<store, user, kind, calls, results, loggedOutSince, snapBefore>>
    /\ guardUnchanged
    /\ clientUnchanged

\* a token is stored: await apiClient.getCurrentUser()
CheckAuthDispatch ==
    /\ pc[CheckAuthProc] = "init"
    /\ getItem(store, "access_token") # NULL
    /\ Dispatch(CheckAuthProc, "/auth/me", store, "awaitMe")
    /\ UNCHANGED <<results, store, user, loading, kind, snapBefore, snapAfter,
                   pathname, search, effectPending>>
    /\ guardUnchanged
    /\ clientUnchanged

\* GET /auth/me succeeded: setUser(userData); finally setLoading(false)
CheckAuthOk ==
    /\ pc[CheckAuthProc] = "awaitMe"
    /\ BackendMayAccept(req[CheckAuthProc])
    /\ \E userData \in Profiles :
         /\ user' = CheckAuthSetUser(user, userData)
         /\ loading' = FALSE
         /\ Settle(CheckAuthProc, "resolved", store, user', FALSE)
         /\ Stay(user', FALSE)
    /\ Answered(CheckAuthProc, "ok")
    /\ UNCHANGED <<store, kind, calls, loggedOutSince, snapBefore>>
    /\ guardUnchanged
    /\ clientUnchanged

\* a catch block that leaves the stored tokens in place
CheckAuthFail_NoClear ==
    /\ pc[CheckAuthProc] = "awaitMe"
    /\ loading' = FALSE
    /\ Settle(CheckAuthProc, "resolved", store, user, FALSE)
    /\ Stay(user, FALSE)
    /\ Answered(CheckAuthProc, "failed")
    /\ UNCHANGED <<store, user, kind, calls, loggedOutSince, snapBefore>>
    /\ guardUnchanged
    /\ clientUnchanged

\* a catch block without the finally that follows it: loading is left as it is
CheckAuthFail_NoFinally ==
    /\ pc[CheckAuthProc] = "awaitMe"
    /\ store' = CheckAuthClear(store)
    /\ Settle(CheckAuthProc, "resolved", store', user, loading)
    /\ Stay(user, loading)
    /\ Answered(CheckAuthProc, "failed")
    /\ UNCHANGED <<user, loading, kind, calls, loggedOutSince, snapBefore>>
    /\ guardUnchanged
    /\ clientUnchanged

\* a startup check that calls GET /auth/me again when the call fails
CheckAuthFail_Retries ==
    /\ pc[CheckAuthProc] = "awaitMe"
    /\ Dispatch(CheckAuthProc, "/auth/me", store, "awaitMe")
    /\ Answered(CheckAuthProc, "failed")
    /\ UNCHANGED <<store, user, loading, kind, snapBefore, snapAfter,
                   pathname, search, effectPending>>
    /\ guardUnchanged
    /\ clientUnchanged

\* GET /auth/me failed: catch removes both tokens; finally setLoading(false)
CheckAuthFail ==
    /\ pc[CheckAuthProc] = "awaitMe"
    /\ \E outcome \in Failures :
         /\ store' = CheckAuthClear(store)
         /\ loading' = FALSE
         /\ Settle(CheckAuthProc, "resolved", store', user, FALSE)
         /\ Stay(user, FALSE)
    /\ Answered(CheckAuthProc, "failed")
    /\ UNCHANGED <<user, kind, calls, loggedOutSince, snapBefore>>
    /\ guardUnchanged
    /\ clientUnchanged

(* login, lines 252-260 *)

\* await apiClient.login(email, password)
LoginStart(p) ==
    /\ MayStart(p)
    /\ Invoke(p, "login")
    /\ Dispatch(p, "/auth/login", store, "awaitLogin")
    /\ UNCHANGED <<results, store, user, loading, snapAfter, pathname, search, effectPending>>
    /\ guardUnchanged
    /\ clientUnchanged

\* login called from inside register (line 276): the same first block,
\* await apiClient.login(email, password), run by the process of the register
LoginBodyStart(p) ==
    /\ Dispatch(p, "/auth/login", store, "awaitLogin")
    /\ UNCHANGED <<store, user, loading, snapAfter, pathname, search, effectPending>>

\* POST /auth/login succeeded: both setItems, then await getCurrentUser()
LoginOk(p) ==
    /\ pc[p] = "awaitLogin"
    /\ \E response \in Pairs :
         /\ store' = LoginPersist(store, response)
         /\ Dispatch(p, "/auth/me", store', "awaitMe")
    /\ Answered(p, "ok")
    /\ UNCHANGED <<user, loading, kind, snapBefore, snapAfter,
                   pathname, search, effectPending>>
    /\ guardUnchanged
    /\ clientUnchanged

\* POST /auth/login failed: the error propagates, login rejects
LoginFail(p) ==
    /\ pc[p] = "awaitLogin"
    /\ \E outcome \in Failures :
         Settle(p, "rejected", store, user, loading)
    /\ Answered(p, "failed")
    /\ UNCHANGED <<store, user, loading, kind, calls, loggedOutSince, snapBefore,
                   pathname, search, effectPending>>
    /\ guardUnchanged
    /\ clientUnchanged

\* GET /auth/me succeeded: setUser(userData); router.push('/dashboard')
LoginMeOk(p) ==
    /\ p \in Ops
    /\ pc[p] = "awaitMe"
    /\ BackendMayAccept(req[p])
    /\ \E userData \in Profiles :
         /\ user' = LoginSetUser(user, userData)
         /\ Settle(p, "resolved", store, user', loading)
         /\ Push(user', loading, "/dashboard")
    /\ Answered(p, "ok")
    /\ UNCHANGED <<store, loading, kind, calls, loggedOutSince, snapBefore>>
    /\ guardUnchanged
    /\ clientUnchanged

\* GET /auth/me failed: the error propagates, login rejects
LoginMeFail(p) ==
    /\ p \in Ops
    /\ pc[p] = "awaitMe"
    /\ \E outcome \in Failures :
         Settle(p, "rejected", store, user, loading)
    /\ Answered(p, "failed")
    /\ UNCHANGED <<store, user, loading, kind, calls, loggedOutSince, snapBefore,
                   pathname, search, effectPending>>
    /\ guardUnchanged
    /\ clientUnchanged

(* logout, lines 262-271; refreshToken's catch block awaits it too *)

\* await apiClient.logout(); the only caller is Navigation's logout button,
\* which is rendered while user is non-null (Navigation.tsx, lines 18 and 50)
LogoutStart(p) ==
    /\ MayStart(p)
    /\ user # NULL
    /\ Invoke(p, "logout")
    /\ Dispatch(p, "/auth/logout", store, "awaitLogout")
    /\ UNCHANGED <<results, store, user, loading, snapAfter, pathname, search, effectPending>>
    /\ guardUnchanged
    /\ clientUnchanged

\* how logout's promise settles: try/finally has no catch, so a failed
\* POST /auth/logout is rethrown after the finally block
LogoutResult(outcome) == IF outcome = "ok" THEN "resolved" ELSE "rejected"

\* the finally block, whatever the call's outcome: both removals, setUser(null),
\* router.push('/auth/login')
LogoutFinally(p) ==
    /\ pc[p] = "awaitLogout"
    /\ \E outcome \in Outcomes :
         /\ store' = LogoutClear(store)
         /\ user' = NULL
         /\ Settle(p, LogoutResult(outcome), store', NULL, loading)
         /\ Push(NULL, loading, "/auth/login")
         /\ Answered(p, IF outcome = "ok" THEN "ok" ELSE "failed")
    /\ loggedOutSince' = [q \in Procs |->
            loggedOutSince[q] \/ (q # p /\ req[q] # NoReq)]
    /\ UNCHANGED <<loading, kind, calls, snapBefore>>
    /\ guardUnchanged
    /\ clientUnchanged

(* register, lines 273-277 *)

\* await apiClient.register(data)
RegisterStart(p) ==
    /\ MayStart(p)
    /\ Invoke(p, "register")
    /\ Dispatch(p, "/auth/register", store, "awaitRegister")
    /\ UNCHANGED <<results, store, user, loading, snapAfter, pathname, search, effectPending>>
    /\ guardUnchanged
    /\ clientUnchanged

\* POST /auth/register succeeded: await login(data.email, data.password)
RegisterOk(p) ==
    /\ pc[p] = "awaitRegister"
    /\ LoginBodyStart(p)
    /\ Answered(p, "ok")
    /\ UNCHANGED <<kind, snapBefore>>
    /\ guardUnchanged
    /\ clientUnchanged

\* a register that goes on to log in after a failed registration
RegisterFail_TriesLogin(p) ==
    /\ pc[p] = "awaitRegister"
    /\ LoginBodyStart(p)
    /\ Answered(p, "failed")
    /\ UNCHANGED <<kind, snapBefore>>
    /\ guardUnchanged
    /\ clientUnchanged

\* POST /auth/register failed: register rejects, login is not called
RegisterFail(p) ==
    /\ pc[p] = "awaitRegister"
    /\ \E outcome \in Failures :
         Settle(p, "rejected", store, user, loading)
    /\ Answered(p, "failed")
    /\ UNCHANGED <<store, user, loading, kind, calls, loggedOutSince, snapBefore,
                   pathname, search, effectPending>>
    /\ guardUnchanged
    /\ clientUnchanged

(* refreshToken, lines 279-290 *)

\* a refresh token is stored: await apiClient.refreshAccessToken(refreshToken)
RefreshStart(p) ==
    /\ MayStart(p)
    /\ ~RefreshTokenMissing(store)
    /\ Invoke(p, "refreshToken")
    /\ Dispatch(p, "/auth/refresh", store, "awaitRefresh")
    /\ UNCHANGED <<results, store, user, loading, snapAfter, pathname, search, effectPending>>
    /\ guardUnchanged
    /\ clientUnchanged

\* no refresh token: throw new Error('No refresh token'), caught by the
\* function's own catch block, which awaits logout()
RefreshNoToken(p) ==
    /\ MayStart(p)
    /\ RefreshTokenMissing(store)
    /\ Invoke(p, "refreshToken")
    /\ Dispatch(p, "/auth/logout", store, "awaitLogout")
    /\ UNCHANGED <<results, store, user, loading, snapAfter, pathname, search, effectPending>>
    /\ guardUnchanged
    /\ clientUnchanged

\* POST /auth/refresh succeeded: both setItems, refreshToken resolves
RefreshOk(p) ==
    /\ pc[p] = "awaitRefresh"
    /\ \E response \in Pairs :
         /\ store' = RefreshPersist(store, response)
         /\ Settle(p, "resolved", store', user, loading)
    /\ Answered(p, "ok")
    /\ UNCHANGED <<user, loading, kind, calls, loggedOutSince, snapBefore,
                   pathname, search, effectPending>>
    /\ guardUnchanged
    /\ clientUnchanged

\* a catch block that swallows the error instead of logging out
RefreshFail_NoLogout(p) ==
    /\ pc[p] = "awaitRefresh"
    /\ Settle(p, "resolved", store, user, loading)
    /\ Answered(p, "failed")
    /\ UNCHANGED <<store, user, loading, kind, calls, loggedOutSince, snapBefore,
                   pathname, search, effectPending>>
    /\ guardUnchanged
    /\ clientUnchanged

\* POST /auth/refresh failed: the catch block awaits logout()
RefreshFail(p) ==
    /\ pc[p] = "awaitRefresh"
    /\ \E outcome \in Failures :
         Dispatch(p, "/auth/logout", store, "awaitLogout")
    /\ Answered(p, "failed")
    /\ UNCHANGED <<store, user, loading, kind, snapBefore, snapAfter,
                   pathname, search, effectPending>>
    /\ guardUnchanged
    /\ clientUnchanged

----------------------------------------------------------------------------
(* The session controller on the event loop *)

StoredAtStartup == {EmptyStore, [access_token |-> "a1", refresh_token |-> "r1"]}

\* the client module has been loaded in the browser with the default
\* configuration and has issued no request
ClientLoaded ==
    /\ apiUrl = ApiUrlOf(NULL)
    /\ inBrowser = TRUE
    /\ pageProtocol = "http:"
    /\ baseUrl = ResolveBaseUrl(apiUrl, inBrowser, pageProtocol)
    /\ sent = <<>>
    /\ answer = NoResponse
    /\ answered = 0
    /\ thrown = NULL
    /\ options = NoOptions
    /\ headers = <<>>

Init ==
    /\ store \in StoredAtStartup
    /\ user = NULL
    /\ loading = TRUE
    /\ kind = [p \in Procs |-> IF p = CheckAuthProc THEN "checkAuth" ELSE "none"]
    /\ pc = [p \in Procs |-> IF p = CheckAuthProc THEN "init" ELSE "idle"]
    /\ req = [p \in Procs |-> NoReq]
    /\ calls = [p \in Procs |-> <<>>]
    /\ results = [p \in Procs |-> <<>>]
    /\ loggedOutSince = [p \in Procs |-> FALSE]
    /\ snapBefore = [p \in Procs |-> NoSnap]
    /\ snapAfter = [p \in Procs |-> NoSnap]
    /\ pathname = "/en/dashboard"
    /\ search = ""
    /\ locale = "en"
    /\ effectPending = TRUE
    /\ redirects = 0
    /\ lastRun = NoRun
    /\ ClientLoaded

Next ==
    \/ CheckAuthNoToken
    \/ CheckAuthDispatch
    \/ CheckAuthOk
    \/ CheckAuthFail
    \/ \E p \in Ops : LoginStart(p)
    \/ \E p \in Ops : LoginOk(p)
    \/ \E p \in Ops : LoginFail(p)
    \/ \E p \in Ops : LoginMeOk(p)
    \/ \E p \in Ops : LoginMeFail(p)
    \/ \E p \in Ops : LogoutStart(p)
    \/ \E p \in Ops : LogoutFinally(p)
    \/ \E p \in Ops : RegisterStart(p)
    \/ \E p \in Ops : RegisterOk(p)
    \/ \E p \in Ops : RegisterFail(p)
    \/ \E p \in Ops : RefreshStart(p)
    \/ \E p \in Ops : RefreshNoToken(p)
    \/ \E p \in Ops : RefreshOk(p)
    \/ \E p \in Ops : RefreshFail(p)

Spec == Init /\ [][Next]_vars

\* The mount effect runs once the provider has rendered, and the GET /auth/me
\* it awaits is answered, one way or the other
Startup ==
    \/ CheckAuthNoToken
    \/ CheckAuthDispatch
    \/ CheckAuthOk
    \/ CheckAuthFail

FairSpec == Spec /\ WF_vars(Startup)

\* how far the operations are
Settled(p) == pc[p] \in {"resolved", "rejected"}
Invoked == {p \in Ops : kind[p] # "none"}
LastResult(p) == results[p][Len(results[p])]

----------------------------------------------------------------------------
(* Route guard: ProtectedRoute *)

Locales == {"en", "ru"}

loginPath(loc) == "/" \o loc \o "/auth/login"

\* a dashboard path without the locale
dashboardPath_NoLocale(loc) == "/dashboard"

dashboardPath(loc) == "/" \o loc \o "/dashboard"

\* a guard that never takes the location for the login screen
isOnLogin_Never(path, loc) == FALSE

isOnLogin(path, loc) == StartsWith(path, loginPath(loc))
isOnAnyAuthRoute(path, loc) == StartsWith(path, "/" \o loc \o "/auth")

\* pathname + (searchParams.toString() ? `?${searchParams.toString()}` : '')
current(path, q) == path \o (IF q # "" THEN "?" \o q ELSE "")

\* a redirect url that drops the query string of the location
returnToUrl_PathOnly(path, q, loc) ==
    loginPath(loc) \o "?returnTo=" \o encodeURIComponent(path)

\* the url of the unauthenticated redirect, line 29
returnToUrl(path, q, loc) ==
    loginPath(loc) \o "?returnTo=" \o
    encodeURIComponent(IF current(path, q) # "" THEN current(path, q) ELSE "/" \o loc)

\* an effect without the loading test of line 23
GuardEffectUrl_NoLoadingCheck(u, l, path, q, loc) ==
    IF u = NULL
    THEN (IF ~isOnLogin(path, loc) THEN returnToUrl(path, q, loc) ELSE NULL)
    ELSE IF isOnAnyAuthRoute(path, loc) THEN dashboardPath(loc)
    ELSE NULL

\* an effect without the isOnLogin test of line 27
GuardEffectUrl_NoLoopCheck(u, l, path, q, loc) ==
    IF l THEN NULL
    ELSE IF u = NULL THEN returnToUrl(path, q, loc)
    ELSE IF isOnAnyAuthRoute(path, loc) THEN dashboardPath(loc)
    ELSE NULL

\* the effect, lines 22-38: the url it passes to router.replace, NULL when it
\* returns without navigating
GuardEffectUrl(u, l, path, q, loc) ==
    IF l THEN NULL
    ELSE IF u = NULL
         THEN (IF ~isOnLogin(path, loc) THEN returnToUrl(path, q, loc) ELSE NULL)
    ELSE IF isOnAnyAuthRoute(path, loc) THEN dashboardPath(loc)
    ELSE NULL

\* a component without the user test of line 61
GuardRenders_NoUserCheck(u, l) == IF l THEN "spinner" ELSE "children"

\* what the component returns, lines 52-63
GuardRenders(u, l) ==
    IF l THEN "spinner" ELSE IF u = NULL THEN "nothing" ELSE "children"

\* a run of the effect: the render it follows (its inputs and what the
\* component returned) and the url it passed to router.replace
RunOf(url) == [ran |-> TRUE, user |-> user, loading |-> loading,
               pathname |-> pathname, search |-> search, url |-> url,
               rendered |-> GuardRenders(user, loading)]

sessionUnchanged ==
    /\ UNCHANGED <<store, kind, pc, req, calls, results, loggedOutSince,
                   snapBefore, snapAfter>>
    /\ clientUnchanged

\* the effect runs and returns without navigating
GuardStays ==
    /\ effectPending
    /\ GuardEffectUrl(user, loading, pathname, search, locale) = NULL
    /\ lastRun' = RunOf(NULL)
    /\ effectPending' = FALSE
    /\ UNCHANGED <<user, loading, pathname, search, locale, redirects>>
    /\ sessionUnchanged

\* the effect runs and calls router.replace(url); the new location re-runs it
GuardRedirects ==
    /\ effectPending
    /\ redirects < MaxRedirects
    /\ LET url == GuardEffectUrl(user, loading, pathname, search, locale) IN
         /\ url # NULL
         /\ lastRun' = RunOf(url)
         /\ redirects' = redirects + 1
         /\ pathname' = UrlPathname(url)
         /\ search' = UrlSearch(url)
         /\ effectPending' = (pathname' # pathname \/ search' # search)
    /\ UNCHANGED <<user, loading, locale>>
    /\ sessionUnchanged

\* the locations a run of the guard starts at or is navigated to
GuardPaths ==
    UNION {{"/" \o loc, "/" \o loc \o "/dashboard", "/" \o loc \o "/account",
            "/" \o loc \o "/auth/login", "/" \o loc \o "/auth/register",
            "/" \o loc \o "/auth/forgot-password",
            "/" \o loc \o "/auth/reset-password"} : loc \in Locales}
GuardSearches == {"", "tab=bots&x=%2F"}

\* the user follows a link to another location
GuardNavigate ==
    /\ \E path \in GuardPaths, q \in GuardSearches :
         /\ StartsWith(path, "/" \o locale)
         /\ path # pathname \/ q # search
         /\ pathname' = path
         /\ search' = q
    /\ effectPending' = TRUE
    /\ UNCHANGED <<user, loading, locale, redirects, lastRun>>
    /\ sessionUnchanged

\* the provider publishes a new session: loading settles once, the user changes
GuardSessionChange ==
    /\ \E u \in Profiles \cup {NULL}, l \in BOOLEAN :
         /\ l => loading
         /\ u # user \/ l # loading
         /\ user' = u
         /\ loading' = l
    /\ effectPending' = TRUE
    /\ UNCHANGED <<pathname, search, locale, redirects, lastRun>>
    /\ sessionUnchanged

GuardInit ==
    /\ store = EmptyStore
    /\ user \in Profiles \cup {NULL}
    /\ loading \in BOOLEAN
    /\ kind = [p \in Procs |-> IF p = CheckAuthProc THEN "checkAuth" ELSE "none"]
    /\ pc = [p \in Procs |-> IF p = CheckAuthProc THEN "init" ELSE "idle"]
    /\ req = [p \in Procs |-> NoReq]
    /\ calls = [p \in Procs |-> <<>>]
    /\ results = [p \in Procs |-> <<>>]
    /\ loggedOutSince = [p \in Procs |-> FALSE]
    /\ snapBefore = [p \in Procs |-> NoSnap]
    /\ snapAfter = [p \in Procs |-> NoSnap]
    /\ locale \in Locales
    /\ pathname \in {path \in GuardPaths : StartsWith(path, "/" \o locale)}
    /\ search \in GuardSearches
    /\ effectPending = TRUE
    /\ redirects = 0
    /\ lastRun = NoRun
    /\ ClientLoaded

GuardNext ==
    \/ GuardStays
    \/ GuardRedirects
    \/ GuardNavigate
    \/ GuardSessionChange

GuardSpec == GuardInit /\ [][GuardNext]_vars

----------------------------------------------------------------------------
(* The api client under the session controller and the guard: the module   *)
(* is loaded, the startup check runs, then the user runs one login or one  *)
(* register.  Each call of request() takes three steps: the operation      *)
(* dispatches it, request() issues the fetch, and request() settles on the *)
(* answer; the operation's continuation follows.                           *)

\* the values of NEXT_PUBLIC_API_URL, NULL when it is not set
EnvApiUrls ==
    {NULL,
     "http://127.0.0.1:8531/v1/",
     "https://localhost:8531/v1",
     "http://api.example.com/v1",
     "https://api.example.com/v1/",
     "http://api.my-localhost.io/v1",
     "http://api.example.com/localhost/v1",
     "http://127.0.0.1.example.com/v1"}

PageProtocols == {"http:", "https:"}

\* the arguments of login(email, password) and of register(data)
Credentials == {[email |-> "a@b.com", password |-> "pw"]}
RegisterDatas == {[email |-> "n@b.com", username |-> "n", password |-> "pw2"]}

\* request bodies: the keys of the JSON object, NULL for a key it does not have
JsonBody(email, username, password) ==
    [email |-> email, username |-> username, password |-> password]
NoBody == JsonBody(NULL, NULL, NULL)

\* lines 78-83: login(email, password) posts {email, password}
LoginBody(email, password) == JsonBody(email, NULL, password)

\* lines 85-90: register(data) posts data
RegisterBody(data) == JsonBody(data.email, data.username, data.password)

\* lines 78-100: the method each auth endpoint is called with
MethodOf(endpoint) == IF endpoint = "/auth/me" THEN "GET" ELSE "POST"

\* lines 47 and 54-63: the fetch request() issues for the dispatched request r
FetchOf(r, body) ==
    [url |-> baseUrl \o NormalizeEndpoint(r.endpoint),
     method |-> MethodOf(r.endpoint),
     bearer |-> r.bearer,
     body |-> body]

RECURSIVE TotalLen(_, _)
TotalLen(f, S) ==
    IF S = {} THEN 0
    ELSE LET p == CHOOSE q \in S : TRUE IN Len(f[p]) + TotalLen(f, S \ {p})

\* requests dispatched by the operations, and answers their continuations took
Dispatched == TotalLen(calls, Procs)
Continued == TotalLen(results, Procs)

\* the process whose request is in flight
InFlight == {p \in Procs : req[p] # NoReq}

\* the module is loaded in the browser and no request is in flight
ClientReady == baseUrl # NULL /\ inBrowser /\ InFlight = {}

\* request() has settled and the operation's continuation has not run yet
Returned == Continued < answered /\ thrown = NULL
Threw == Continued < answered /\ thrown # NULL

\* the bodies request() may be called with by process p for request r
BodiesOf(p, r) ==
    IF r.endpoint = "/auth/register" THEN {RegisterBody(data) : data \in RegisterDatas}
    ELSE IF r.endpoint = "/auth/login" /\ kind[p] = "login"
         THEN {LoginBody(c.email, c.password) : c \in Credentials}
    ELSE IF r.endpoint = "/auth/login"
         \* line 276: login(data.email, data.password), data as just posted
         THEN {LoginBody(sent[Len(sent)].body.email, sent[Len(sent)].body.password)}
    ELSE {NoBody}

\* the module is loaded: new ApiClient() resolves the base url
Construct ==
    /\ baseUrl = NULL
    /\ baseUrl' = ResolveBaseUrl(apiUrl, inBrowser, pageProtocol)
    /\ UNCHANGED <<store, user, loading, kind, pc, req, calls, results,
                   loggedOutSince, snapBefore, snapAfter,
                   pathname, search, locale, effectPending, redirects, lastRun,
                   apiUrl, inBrowser, pageProtocol, sent, answer, answered, thrown,
                   options, headers>>

\* request(), lines 44-63: the fetch of the request just dispatched
RequestFetch ==
    /\ Len(sent) < Dispatched
    /\ \E p \in InFlight : \E body \in BodiesOf(p, req[p]) :
         sent' = Append(sent, FetchOf(req[p], body))
    /\ UNCHANGED <<store, user, loading, kind, pc, req, calls, results,
                   loggedOutSince, snapBefore, snapAfter,
                   pathname, search, locale, effectPending, redirects, lastRun,
                   apiUrl, inBrowser, pageProtocol, baseUrl, answer, answered, thrown,
                   options, headers>>

\* a successful answer carries what the caller reads from it: a JSON object
BackendMayAnswer(r, a) ==
    (a.arrived /\ ok(a) /\ r.endpoint # "/auth/logout") =>
        (a.status = 200 /\ a.body = JsonObject(NULL))

\* a pipeline that calls fetch again when the call has failed
RequestSettles_Retries ==
    /\ answered < Len(sent)
    /\ \E p \in InFlight : \E a \in Answers :
         /\ BackendMayAnswer(req[p], a)
         /\ answer' = a
         /\ thrown' = requestThrows(a)
         /\ sent' = IF requestThrows(a) # NULL
                    THEN Append(sent, sent[Len(sent)]) ELSE sent
    /\ answered' = answered + 1
    /\ UNCHANGED <<store, user, loading, kind, pc, req, calls, results,
                   loggedOutSince, snapBefore, snapAfter,
                   pathname, search, locale, effectPending, redirects, lastRun,
                   apiUrl, inBrowser, pageProtocol, baseUrl, options, headers>>

\* request(), lines 65-74: the fetch is answered and request() returns or throws
RequestSettles ==
    /\ answered < Len(sent)
    /\ \E p \in InFlight : \E a \in Answers :
         /\ BackendMayAnswer(req[p], a)
         /\ answer' = a
         /\ thrown' = requestThrows(a)
    /\ answered' = answered + 1
    /\ UNCHANGED <<store, user, loading, kind, pc, req, calls, results,
                   loggedOutSince, snapBefore, snapAfter,
                   pathname, search, locale, effectPending, redirects, lastRun,
                   apiUrl, inBrowser, pageProtocol, baseUrl, sent, options, headers>>

\* the locations a session starts at
StartPaths == {"/en/dashboard", "/en/account"}

ClientInit ==
    /\ store \in StoredAtStartup
    /\ user = NULL
    /\ loading = TRUE
    /\ kind = [p \in Procs |-> IF p = CheckAuthProc THEN "checkAuth" ELSE "none"]
    /\ pc = [p \in Procs |-> IF p = CheckAuthProc THEN "init" ELSE "idle"]
    /\ req = [p \in Procs |-> NoReq]
    /\ calls = [p \in Procs |-> <<>>]
    /\ results = [p \in Procs |-> <<>>]
    /\ loggedOutSince = [p \in Procs |-> FALSE]
    /\ snapBefore = [p \in Procs |-> NoSnap]
    /\ snapAfter = [p \in Procs |-> NoSnap]
    /\ pathname \in StartPaths
    /\ search = ""
    /\ locale = "en"
    /\ effectPending = TRUE
    /\ redirects = 0
    /\ lastRun = NoRun
    /\ apiUrl \in {ApiUrlOf(env) : env \in EnvApiUrls}
    /\ inBrowser \in BOOLEAN
    /\ pageProtocol \in PageProtocols
    /\ baseUrl = NULL
    /\ sent = <<>>
    /\ answer = NoResponse
    /\ answered = 0
    /\ thrown = NULL
    /\ options = NoOptions
    /\ headers = <<>>

\* the login form is on the login screen
OnLoginScreen == isOnLogin(pathname, locale)

ClientNext ==
    \/ Construct
    \/ RequestFetch
    \/ RequestSettles
    \/ ClientReady /\ CheckAuthNoToken
    \/ ClientReady /\ CheckAuthDispatch
    \/ Returned /\ CheckAuthOk
    \/ Threw /\ CheckAuthFail
    \/ \E p \in Ops : ClientReady /\ Invoked = {} /\ OnLoginScreen /\ LoginStart(p)
    \/ \E p \in Ops : Returned /\ LoginOk(p)
    \/ \E p \in Ops : Threw /\ LoginFail(p)
    \/ \E p \in Ops : Returned /\ LoginMeOk(p)
    \/ \E p \in Ops : Threw /\ LoginMeFail(p)
    \/ \E p \in Ops : ClientReady /\ Invoked = {} /\ RegisterStart(p)
    \/ \E p \in Ops : Returned /\ RegisterOk(p)
    \/ \E p \in Ops : Threw /\ RegisterFail(p)
    \/ ClientReady /\ GuardStays
    \/ ClientReady /\ GuardRedirects

ClientSpec == ClientInit /\ [][ClientNext]_vars

----------------------------------------------------------------------------
(* The headers of a request: request(endpoint, options) called with caller *)
(* headers, from its invocation to its fetch call (lines 44-63).  A plain  *)
(* object is a sequence of <<key, value>> properties in insertion order.   *)

\* header names a caller supplies; names are matched case-insensitively by
\* fetch, so two spellings of one name are among them
HeaderNames == {"Content-Type", "content-type", "Authorization", "X-Request-Id"}

\* ASCII lower-casing of a header name, as fetch's Headers does on every name
Lower(name) ==
    CASE name = "Content-Type" -> "content-type"
      [] name = "Authorization" -> "authorization"
      [] name = "X-Request-Id" -> "x-request-id"
      [] OTHER -> name

\* the value the caller gives each name
CallerValue(name) ==
    CASE Lower(name) = "content-type" -> "text/plain"
      [] Lower(name) = "authorization" -> "Basic abc"
      [] OTHER -> "7"

CallerPairs == {<<name, CallerValue(name)>> : name \in HeaderNames}

\* the headers a caller supplies: up to MaxCallerHeaders of them, no name twice
CallerEntries ==
    UNION {{e \in [1..n -> CallerPairs] :
                \A i, j \in 1..n : i # j => Lower(e[i][1]) # Lower(e[j][1])} :
           n \in 0..MaxCallerHeaders}

\* options.headers is a HeadersInit: a plain object or a Headers instance
\* (RequestInit), or options is absent
CallerOptions ==
    {NoOptions} \cup
    {[form |-> form, entries |-> e] : form \in {"object", "Headers"},
                                      e \in CallerEntries}

\* obj[key] = value: an existing key keeps its place, a new key goes last
SetProperty(obj, key, value) ==
    IF \E i \in 1..Len(obj) : obj[i][1] = key
    THEN [i \in 1..Len(obj) |-> IF obj[i][1] = key THEN <<key, value>> ELSE obj[i]]
    ELSE Append(obj, <<key, value>>)

\* {...obj, ...props}: the properties are assigned in order, keys compared as
\* they are spelled
RECURSIVE ObjectSpread(_, _)
ObjectSpread(obj, props) ==
    IF props = <<>> THEN obj
    ELSE ObjectSpread(SetProperty(obj, Head(props)[1], Head(props)[2]), Tail(props))

\* what ...options?.headers copies: the own enumerable properties of the
\* value.  A plain object has its entries; a Headers instance keeps its
\* entries internally and has none; undefined has none.
OwnProperties(h) == IF h.form = "object" THEN h.entries ELSE <<>>

\* getAuthHeaders() as an object, lines 36-42
AuthHeaders(s, browser) ==
    LET token == IF browser THEN getItem(s, "access_token") ELSE NULL
    IN  <<<<"Content-Type", "application/json">>>> \o
        (IF token # NULL THEN <<<<"Authorization", "Bearer " \o token>>>> ELSE <<>>)

\* headers: {'Content-Type': 'application/json', ...this.getAuthHeaders(),
\*           ...options?.headers}, lines 56-60
RequestHeaders(s, browser, h) ==
    ObjectSpread(ObjectSpread(<<<<"Content-Type", "application/json">>>>,
                              AuthHeaders(s, browser)),
                 OwnProperties(h))

\* the value fetch sends for a header name: fetch builds a Headers from the
\* object by appending each property, and a name appended under several
\* spellings is sent once with the values joined by ", ".  NULL: not sent.
RECURSIVE HeaderSent(_, _)
HeaderSent(obj, name) ==
    IF obj = <<>> THEN NULL
    ELSE LET rest == HeaderSent(Tail(obj), name)
         IN  IF Lower(Head(obj)[1]) # Lower(name) THEN rest
             ELSE IF rest = NULL THEN Head(obj)[2]
             ELSE Head(obj)[2] \o ", " \o rest

\* the caller supplies the header name
Supplies(h, name) ==
    \E i \in 1..Len(h.entries) : Lower(h.entries[i][1]) = Lower(name)

\* the stores a request can find: the server has no localStorage
HeadersInit ==
    /\ inBrowser \in BOOLEAN
    /\ store \in (IF inBrowser THEN {EmptyStore} \cup Pairs ELSE {EmptyStore})
    /\ options \in CallerOptions
    /\ headers = <<>>
    /\ user = NULL
    /\ loading = TRUE
    /\ kind = [p \in Procs |-> IF p = CheckAuthProc THEN "checkAuth" ELSE "none"]
    /\ pc = [p \in Procs |-> IF p = CheckAuthProc THEN "init" ELSE "idle"]
    /\ req = [p \in Procs |-> NoReq]
    /\ calls = [p \in Procs |-> <<>>]
    /\ results = [p \in Procs |-> <<>>]
    /\ loggedOutSince = [p \in Procs |-> FALSE]
    /\ snapBefore = [p \in Procs |-> NoSnap]
    /\ snapAfter = [p \in Procs |-> NoSnap]
    /\ pathname = "/en/dashboard"
    /\ search = ""
    /\ locale = "en"
    /\ effectPending = TRUE
    /\ redirects = 0
    /\ lastRun = NoRun
    /\ apiUrl = ApiUrlOf(NULL)
    /\ pageProtocol = "http:"
    /\ baseUrl = ResolveBaseUrl(apiUrl, inBrowser, pageProtocol)
    /\ sent = <<>>
    /\ answer = NoResponse
    /\ answered = 0
    /\ thrown = NULL

\* request(endpoint, {headers: options}) up to its fetch call
RequestWithHeaders ==
    /\ headers = <<>>
    /\ headers' = RequestHeaders(store, inBrowser, options)
    /\ UNCHANGED <<store, user, loading, kind, pc, req, calls, results,
                   loggedOutSince, snapBefore, snapAfter,
                   pathname, search, locale, effectPending, redirects, lastRun,
                   apiUrl, inBrowser, pageProtocol, baseUrl, sent, answer,
                   answered, thrown, options>>

HeadersNext == RequestWithHeaders

HeadersSpec == HeadersInit /\ [][HeadersNext]_vars

----------------------------------------------------------------------------
(* Sequential semantics: each operation run alone, from start to settlement, *)
(* on a session (store, user), for every answer the backend may give         *)

Session(s, u) == [store |-> s, user |-> u]

\* login run alone: POST /auth/login fails; or it succeeds and GET /auth/me
\* fails; or both succeed
SeqLogin(ss) ==
    {ss}
    \cup {Session(LoginPersist(ss.store, r), ss.user) : r \in Pairs}
    \cup {Session(LoginPersist(ss.store, r), LoginSetUser(ss.user, u)) :
            r \in Pairs, u \in Profiles}

\* logout run alone
SeqLogout(ss) == {Session(LogoutClear(ss.store), NULL)}

\* refreshToken run alone
SeqRefresh(ss) ==
    IF RefreshTokenMissing(ss.store) THEN SeqLogout(ss)
    ELSE {Session(RefreshPersist(ss.store, r), ss.user) : r \in Pairs}
         \cup SeqLogout(ss)

SeqOp(k, ss) ==
    CASE k = "login" -> SeqLogin(ss)
      [] k = "logout" -> SeqLogout(ss)
      [] k = "refreshToken" -> SeqRefresh(ss)

\* the sessions that running the operations of P one at a time, in any order,
\* can end in
RECURSIVE SerialRuns(_, _)
SerialRuns(ss, P) ==
    IF P = {} THEN {ss}
    ELSE UNION {UNION {SerialRuns(s2, P \ {p}) : s2 \in SeqOp(kind[p], ss)} : p \in P}

----------------------------------------------------------------------------
(* Properties of the session controller, checked under Spec *)


\* C1: whatever the outcome of POST /auth/logout (success, HTTP error, network
\* failure), when logout() settles the store holds neither token and the
\* session user is null.
C1_LogoutAlwaysClears ==
    \A p \in Ops :
        (kind[p] = "logout" /\ Settled(p)) =>
            /\ snapAfter[p].store.access_token = NULL
            /\ snapAfter[p].store.refresh_token = NULL
            /\ snapAfter[p].user = NULL

\* a logout whose backend call failed has settled, started from a stored pair
\* and a signed-in user
C1_Witness ==
    \E p \in Ops :
        /\ kind[p] = "logout" /\ pc[p] = "rejected"
        /\ results[p] = <<"failed">>
        /\ HasPair(snapBefore[p].store)
        /\ snapBefore[p].user # NULL

\* login p ran with nothing else in progress: the startup check had settled
\* before it and no other operation was started
RanAlone(p) ==
    /\ ~snapBefore[p].loading
    /\ \A q \in Ops \ {p} : kind[q] = "none"

\* C2: a login that fails, at POST /auth/login or at the following
\* GET /auth/me, leaves the store as it was before the call.
C2_FailedLoginLeavesStore ==
    \A p \in Ops :
        (kind[p] = "login" /\ pc[p] = "rejected" /\ RanAlone(p)) =>
            snapAfter[p].store = snapBefore[p].store

\* C3: a POST /auth/refresh response that arrives after a concurrent logout
\* has cleared the store is discarded: the store stays absent.
C3_LateRefreshDiscarded ==
    [][\A p \in Ops :
          (/\ kind[p] = "refreshToken" /\ pc[p] = "awaitRefresh"
           /\ loggedOutSince[p] /\ Absent(store)
           /\ pc'[p] = "resolved") => Absent(store')]_vars

\* C4: when POST /auth/refresh fails, refreshToken() settles in logout's end
\* state: store absent, user null, no token of the old pair left.
C4_RefreshFailureIsLogout ==
    \A p \in Ops :
        (/\ kind[p] = "refreshToken" /\ Settled(p)
         /\ calls[p][1] = "/auth/refresh" /\ results[p][1] = "failed") =>
            /\ snapAfter[p].store = EmptyStore
            /\ snapAfter[p].user = NULL

\* a refreshToken whose POST /auth/refresh failed has settled, started from a
\* stored pair and a signed-in user
C4_Witness ==
    \E p \in Ops :
        /\ kind[p] = "refreshToken" /\ Settled(p)
        /\ calls[p][1] = "/auth/refresh" /\ results[p][1] = "failed"
        /\ HasPair(snapBefore[p].store)
        /\ snapBefore[p].user # NULL

\* C5, as stated: refreshToken() with no stored refresh token fails at once
\* and issues no network call.
C5_NoTokenNoNetworkCall ==
    \A p \in Ops :
        (kind[p] = "refreshToken" /\ snapBefore[p].store.refresh_token = NULL) =>
            /\ calls[p] = <<>>
            /\ pc[p] = "rejected"

\* C5, amended: refreshToken() with no stored refresh token never calls
\* POST /auth/refresh; it runs the logout transition, whose POST /auth/logout
\* is the only call it issues, and settles with store absent and user null.
C5_NoTokenNoRefreshCall ==
    \A p \in Ops :
        (kind[p] = "refreshToken" /\ snapBefore[p].store.refresh_token = NULL) =>
            /\ calls[p] = <<"/auth/logout">>
            /\ Settled(p) =>
                 /\ snapAfter[p].store = EmptyStore
                 /\ snapAfter[p].user = NULL

\* a refreshToken invoked with no refresh token stored has settled
C5_Witness ==
    \E p \in Ops :
        /\ kind[p] = "refreshToken"
        /\ snapBefore[p].store.refresh_token = NULL
        /\ Settled(p)

\* C6: between any two event-loop steps the store never holds exactly one of
\* access_token and refresh_token.
C6_PairAtomicity ==
    (store.access_token = NULL) <=> (store.refresh_token = NULL)

\* the startup check has failed and cleared, a login has written a pair and a
\* refresh has replaced it
C6_Witness ==
    /\ pc[CheckAuthProc] = "resolved" /\ results[CheckAuthProc] = <<"failed">>
    /\ \E p, q \in Ops :
         /\ kind[p] = "login" /\ pc[p] = "resolved"
         /\ kind[q] = "refreshToken" /\ pc[q] = "resolved" /\ results[q] = <<"ok">>
         /\ HasPair(store)
         /\ store # snapBefore[q].store

\* C7: the session user is non-null only if the store holds a token pair.
C7_UserOnlyWithPair == user # NULL => HasPair(store)

\* C8: a GET /auth/me response that arrives after a logout has cleared the
\* session is ignored: it does not set the user.
C8_StaleMeIgnored ==
    [][\A p \in Procs :
          (/\ pc[p] = "awaitMe" /\ loggedOutSince[p]
           /\ user = NULL
           /\ pc'[p] = "resolved" /\ LastResult(p)' = "ok") => user' = NULL]_vars

\* C9: once concurrently invoked login, logout and refreshToken operations
\* have all settled, the store and user are what running them one at a time
\* in some order gives.
C9_Serializable ==
    (/\ Invoked # {}
     /\ \A p \in Invoked :
          Settled(p) /\ kind[p] \in {"login", "logout", "refreshToken"}
     /\ ~snapBefore[1].loading) =>
        Session(store, user) \in
            SerialRuns(Session(snapBefore[1].store, snapBefore[1].user), Invoked)

\* no operation was invoked while the startup check was in progress
StartupRanAlone ==
    \A q \in Ops : kind[q] # "none" => ~snapBefore[q].loading

\* C11: when the startup check's GET /auth/me fails (HTTP error or network
\* failure), checkAuth settles with both tokens removed and loading false, and
\* with user null when no operation ran during the check.
C11_StartupFailureClears ==
    (pc[CheckAuthProc] = "resolved" /\ results[CheckAuthProc] = <<"failed">>) =>
        /\ snapAfter[CheckAuthProc].store.access_token = NULL
        /\ snapAfter[CheckAuthProc].store.refresh_token = NULL
        /\ ~snapAfter[CheckAuthProc].loading
        /\ StartupRanAlone => snapAfter[CheckAuthProc].user = NULL

\* the startup check found a token, called GET /auth/me with it, and has
\* settled on the call's failure with nothing else invoked
C11_Witness ==
    /\ pc[CheckAuthProc] = "resolved"
    /\ calls[CheckAuthProc] = <<"/auth/me">>
    /\ results[CheckAuthProc] = <<"failed">>
    /\ Invoked = {}
    /\ Absent(store) /\ user = NULL /\ ~loading

C14_LogoutNeverRejects ==
    \A p \in Ops : kind[p] = "logout" => pc[p] # "rejected"

\* C26: the startup check issues at most one GET /auth/me and takes one
\* answer; every other GET /auth/me is the second call of a login, made by
\* login() or by the login register() runs, right after its POST /auth/login.
C26_StartupChecksOnce ==
    /\ Len(calls[CheckAuthProc]) <= 1
    /\ Len(results[CheckAuthProc]) <= 1
    /\ pc[CheckAuthProc] = "resolved" => req[CheckAuthProc] = NoReq
    /\ \A p \in Ops : \A i \in 1..Len(calls[p]) :
         calls[p][i] = "/auth/me" =>
            /\ kind[p] \in {"login", "register"}
            /\ i > 1
            /\ calls[p][i - 1] = "/auth/login"
            /\ results[p][i - 1] = "ok"

\* the startup check has failed, and an operation started after it has
\* called GET /auth/me
C26_Witness ==
    /\ pc[CheckAuthProc] = "resolved"
    /\ results[CheckAuthProc] = <<"failed">>
    /\ \E p \in Ops :
         /\ ~snapBefore[p].loading
         /\ kind[p] = "login"
         /\ calls[p] = <<"/auth/login", "/auth/me">>

\* C27: when a login has succeeded while the startup check's GET /auth/me
\* was in flight and the check then fails, the store still holds the pair
\* the login wrote.
C27_StartupFailureKeepsLoginPair ==
    \A p \in Ops :
        (/\ kind[p] = "login" /\ pc[p] = "resolved"
         /\ Invoked = {p}
         /\ snapBefore[p].loading /\ snapAfter[p].loading
         /\ pc[CheckAuthProc] = "resolved"
         /\ results[CheckAuthProc] = <<"failed">>) =>
            /\ snapAfter[CheckAuthProc].store = snapAfter[p].store
            /\ store = snapAfter[p].store

\* C28: loading eventually becomes false on every startup path, given that
\* GET /auth/me is answered, and once false it is never set back to true.
C28_LeavesAuthenticating ==
    /\ <>(~loading)
    /\ [][~loading => ~loading']_vars

\* loading is false after a failed GET /auth/me, and operations have run
\* since: a login, then a logout
C28_Witness ==
    /\ ~loading
    /\ results[CheckAuthProc] = <<"failed">>
    /\ \E p, q \in Ops :
         /\ kind[p] = "login" /\ pc[p] = "resolved"
         /\ kind[q] = "logout" /\ Settled(q)

----------------------------------------------------------------------------
(* Properties of the route guard, checked under GuardSpec *)

\* the guard's last run saw a settled, unauthenticated session
RanUnauthenticated ==
    lastRun.ran /\ ~lastRun.loading /\ lastRun.user = NULL

\* C10, as stated: settled Unauthenticated at any location under
\* /<locale>/auth, the guard issues no redirect.
C10_NoRedirectOnAuthScreens ==
    (RanUnauthenticated
     /\ StartsWith(lastRun.pathname, "/" \o locale \o "/auth")) =>
        lastRun.url = NULL

\* C10, amended: settled Unauthenticated on the login screen (a path that
\* starts with /<locale>/auth/login) the guard issues no redirect; on the
\* other screens under /<locale>/auth it redirects to the login screen.
C10_NoRedirectOnLogin ==
    (RanUnauthenticated
     /\ StartsWith(lastRun.pathname, "/" \o locale \o "/auth")) =>
        IF StartsWith(lastRun.pathname, "/" \o locale \o "/auth/login")
        THEN lastRun.url = NULL
        ELSE /\ lastRun.url # NULL
             /\ UrlPathname(lastRun.url) = "/" \o locale \o "/auth/login"

\* the guard has run, unauthenticated, on the login screen with a query string
C10_Witness ==
    /\ RanUnauthenticated
    /\ lastRun.pathname = "/" \o locale \o "/auth/login"
    /\ lastRun.search # ""
    /\ lastRun.url = NULL

\* C23: while loading is true the guard's effect navigates nowhere, whatever
\* the location and the user, and the component returns the spinner.
C23_NoDecisionWhileLoading ==
    (lastRun.ran /\ lastRun.loading) =>
        /\ lastRun.url = NULL
        /\ lastRun.rendered = "spinner"

\* the guard has run while loading, with a user, on an authentication screen
C23_Witness ==
    /\ lastRun.ran /\ lastRun.loading
    /\ lastRun.user # NULL
    /\ StartsWith(lastRun.pathname, "/" \o locale \o "/auth/")
    /\ lastRun.url = NULL

\* the character a %XX escape stands for
Unescaped(e) ==
    CASE e = "%2F" -> "/"
      [] e = "%3F" -> "?"
      [] e = "%3D" -> "="
      [] e = "%26" -> "&"
      [] e = "%25" -> "%"
      [] OTHER -> e

\* decodeURIComponent, the inverse of the encoding
RECURSIVE decodeURIComponent(_)
decodeURIComponent(s) ==
    IF Len(s) = 0 THEN ""
    ELSE IF SubSeq(s, 1, 1) = "%" /\ Len(s) >= 3
         THEN Unescaped(SubSeq(s, 1, 3)) \o decodeURIComponent(SubSeq(s, 4, Len(s)))
    ELSE SubSeq(s, 1, 1) \o decodeURIComponent(SubSeq(s, 2, Len(s)))

\* the original location of a run: path, plus "?" and the query if it has one
OriginOf(run) ==
    run.pathname \o (IF run.search = "" THEN "" ELSE "?" \o run.search)

\* the value of the returnTo parameter of a url whose query is returnTo=...
ReturnToOf(url) == SubSeq(UrlSearch(url), Len("returnTo=") + 1, Len(UrlSearch(url)))

\* C24: settled Unauthenticated at a location outside /<locale>/auth, the
\* guard redirects to /<locale>/auth/login with a single parameter returnTo
\* whose value decodes to the original location, path plus query string; at
\* the location it redirects to, it redirects no more.
C24_RedirectToLoginWithReturnTo ==
    (RanUnauthenticated
     /\ ~StartsWith(lastRun.pathname, "/" \o locale \o "/auth")) =>
        /\ lastRun.url # NULL
        /\ UrlPathname(lastRun.url) = "/" \o locale \o "/auth/login"
        /\ StartsWith(UrlSearch(lastRun.url), "returnTo=")
        /\ ~Includes(ReturnToOf(lastRun.url), "&")
        /\ ~Includes(ReturnToOf(lastRun.url), "=")
        /\ ~Includes(ReturnToOf(lastRun.url), "?")
        /\ ~Includes(ReturnToOf(lastRun.url), "/")
        /\ decodeURIComponent(ReturnToOf(lastRun.url)) = OriginOf(lastRun)
        /\ GuardEffectUrl(NULL, FALSE, UrlPathname(lastRun.url),
                          UrlSearch(lastRun.url), locale) = NULL

\* the guard has redirected an unauthenticated user from the account page,
\* reached with a query string
C24_Witness ==
    /\ RanUnauthenticated
    /\ lastRun.pathname = "/" \o locale \o "/account"
    /\ lastRun.search = "tab=bots&x=%2F"
    /\ lastRun.url # NULL

\* C25: Authenticated, the guard redirects to /<locale>/dashboard exactly at
\* the locations under /<locale>/auth; at every other location it issues no
\* redirect and the component returns its children.
C25_AuthenticatedGuard ==
    (lastRun.ran /\ ~lastRun.loading /\ lastRun.user # NULL) =>
        /\ lastRun.rendered = "children"
        /\ IF StartsWith(lastRun.pathname, "/" \o locale \o "/auth/")
           THEN lastRun.url = "/" \o locale \o "/dashboard"
           ELSE lastRun.url = NULL

\* the guard has redirected an authenticated user away from the login screen
C25_Witness ==
    /\ lastRun.ran /\ ~lastRun.loading /\ lastRun.user # NULL
    /\ lastRun.pathname = "/" \o locale \o "/auth/login"
    /\ lastRun.url # NULL

\* C29: with the session settled and unchanged, the run of the effect that
\* follows a redirect, at the location redirected to, issues no redirect: the
\* guard converges after at most one redirect.
C29_ConvergesAfterOneRedirect ==
    [][(/\ lastRun.ran /\ ~lastRun.loading /\ lastRun.url # NULL
        /\ lastRun' # lastRun
        /\ lastRun'.user = lastRun.user /\ lastRun'.loading = lastRun.loading
        /\ lastRun'.pathname = UrlPathname(lastRun.url)
        /\ lastRun'.search = UrlSearch(lastRun.url))
           => lastRun'.url = NULL]_vars

\* the guard has run, without redirecting, at the login url an earlier run
\* redirected to
C29_Witness ==
    /\ RanUnauthenticated
    /\ redirects > 0
    /\ lastRun.pathname = "/" \o locale \o "/auth/login"
    /\ StartsWith(lastRun.search, "returnTo=")
    /\ lastRun.url = NULL

\* C30: the component returns its children only when loading is false and
\* user is non-null; when loading is true or user is null it returns the
\* spinner or nothing, at every location.
C30_ChildrenOnlyWhenAuthenticated ==
    lastRun.ran =>
        /\ lastRun.rendered = "children" <=> (~lastRun.loading /\ lastRun.user # NULL)
        /\ (lastRun.loading \/ lastRun.user = NULL) =>
              lastRun.rendered \in {"spinner", "nothing"}

\* the component has rendered for a settled session without a user, at a
\* protected location
C30_Witness ==
    /\ RanUnauthenticated
    /\ lastRun.pathname = "/" \o locale \o "/dashboard"
    /\ lastRun.rendered = "nothing"

----------------------------------------------------------------------------
(* Properties of the api client, checked under ClientSpec *)

\* the last answer is a response with a status outside [200, 300)
FailedWithResponse == answered > 0 /\ answer.arrived /\ ~ok(answer)

\* C13: when POST /auth/login is answered with a non-2xx status and a JSON
\* body whose detail is d, login() rejects with message d, and the store and
\* the user are as before the call: store unchanged, user null.
C13_LoginRejectsWithDetail ==
    \A p \in Ops :
        (/\ kind[p] = "login" /\ pc[p] = "rejected"
         /\ calls[p] = <<"/auth/login">>
         /\ FailedWithResponse
         /\ answer.body.json = "object" /\ answer.body.detail # NULL) =>
            /\ thrown = answer.body.detail
            /\ snapAfter[p].store = snapBefore[p].store
            /\ store = snapBefore[p].store
            /\ snapAfter[p].user = NULL
            /\ user = NULL

\* a login has been rejected on HTTP 401 {detail: "Invalid credentials"}
C13_Witness ==
    \E p \in Ops :
        /\ kind[p] = "login" /\ pc[p] = "rejected"
        /\ calls[p] = <<"/auth/login">>
        /\ answer = [arrived |-> TRUE, status |-> 401,
                     body |-> JsonObject("Invalid credentials")]
        /\ thrown = "Invalid credentials"

\* the fetches issued for an endpoint
IsFetchOf(i, endpoint) == EndsWith(sent[i].url, endpoint)

\* C15: register(data) calls POST /auth/login only after POST /auth/register
\* has succeeded, and with data.email and data.password; when the
\* registration fails no login request is issued, no token is written and
\* the user is unchanged.
C15_RegisterThenLogin ==
    \A p \in Ops :
        kind[p] = "register" =>
            /\ \A i \in 1..Len(calls[p]) :
                 calls[p][i] = "/auth/login" =>
                    /\ i = 2
                    /\ calls[p][1] = "/auth/register"
                    /\ results[p][1] = "ok"
            /\ \A i \in 2..Len(sent) :
                 (IsFetchOf(i, "/auth/login") /\ IsFetchOf(i - 1, "/auth/register")) =>
                    /\ sent[i].method = "POST"
                    /\ sent[i].body.email = sent[i - 1].body.email
                    /\ sent[i].body.password = sent[i - 1].body.password
                    /\ sent[i].body.username = NULL
            /\ results[p] = <<"failed">> =>
                 /\ pc[p] = "rejected"
                 /\ \A i \in 1..Len(sent) : ~IsFetchOf(i, "/auth/login")
                 /\ store = snapBefore[p].store
                 /\ user = snapBefore[p].user

\* a register whose POST /auth/register succeeded has posted the data's email
\* and password to /auth/login
C15_Witness ==
    \E p \in Ops :
        /\ kind[p] = "register"
        /\ calls[p] = <<"/auth/register", "/auth/login">>
        /\ results[p] = <<"ok">>
        /\ Len(sent) >= 2
        /\ IsFetchOf(Len(sent), "/auth/login")
        /\ sent[Len(sent)].body = LoginBody("n@b.com", "pw2")

\* the base url has been resolved in a browser on an https: page
ResolvedOnHttpsPage == baseUrl # NULL /\ inBrowser /\ pageProtocol = "https:"

\* the configured url targets the loopback host
TargetsLoopback == UrlHost(apiUrl) \in {"localhost", "127.0.0.1"}

\* C16: with a base url whose host is localhost or 127.0.0.1 and an https:
\* page, the resolved base url keeps the configured scheme: http: stays http:.
C16_LoopbackKeepsScheme ==
    (ResolvedOnHttpsPage /\ TargetsLoopback) =>
        /\ UrlScheme(baseUrl) = UrlScheme(apiUrl)
        /\ UrlHost(baseUrl) = UrlHost(apiUrl)

\* the client was constructed on an https: page with http://127.0.0.1:8531/v1/
C16_Witness ==
    /\ ResolvedOnHttpsPage
    /\ UrlHost(apiUrl) = "127.0.0.1"
    /\ UrlScheme(apiUrl) = "http:"
    /\ baseUrl = "http://127.0.0.1:8531/v1"

\* C17: in a browser on an https: page, every base url that does not target
\* a loopback host is upgraded to https:, also when 'localhost' or
\* '127.0.0.1' occurs in its path or inside a longer host name.
C17_NonLoopbackUpgraded ==
    (ResolvedOnHttpsPage /\ ~TargetsLoopback) => UrlScheme(baseUrl) = "https:"

LocalePath(path, loc) ==
    IF path = "/" \o loc \/ StartsWith(path, "/" \o loc \o "/") THEN path
    ELSE "/" \o loc \o path

\* C20: after the guard has redirected an unauthenticated user from location
\* L to the login screen with returnTo=L, a successful login lands on L.
C20_LoginReturnsToOrigin ==
    \A p \in Ops :
        (/\ kind[p] = "login" /\ pc[p] = "resolved"
         /\ lastRun.ran /\ ~lastRun.loading /\ lastRun.user = NULL
         /\ lastRun.url = returnToUrl(lastRun.pathname, lastRun.search, locale)) =>
            /\ LocalePath(pathname, locale) = LocalePath(lastRun.pathname, locale)
            /\ search = lastRun.search

\* C22: request() does nothing but its one network call: a step of
\* request(), the fetch or its settlement, leaves the store, user and loading
\* as they are; no invocation has more than one fetch and no fetch more than
\* one answer; a settlement, failed or not, issues no fetch; and when no
\* request is in flight every invocation has had exactly one fetch.
C22_RequestOnlyCallsNetwork ==
    /\ [](/\ answered <= Len(sent)
          /\ Len(sent) <= Dispatched
          /\ InFlight = {} => (Len(sent) = Dispatched /\ answered = Len(sent)))
    /\ [][(sent' # sent \/ answered' # answered) =>
             /\ store' = store /\ user' = user /\ loading' = loading
             /\ answered' # answered => sent' = sent]_vars

\* a login's POST /auth/login has failed after the startup check's call,
\* and login() has rejected: two invocations, two fetches, two answers
C22_Witness ==
    \E p \in Ops :
        /\ kind[p] = "login" /\ pc[p] = "rejected"
        /\ thrown # NULL
        /\ Dispatched = 2 /\ Len(sent) = 2 /\ answered = 2
        /\ store = snapBefore[p].store

----------------------------------------------------------------------------
(* Properties of the request headers, checked under HeadersSpec *)

C21_PlainObjectHeadersWin ==
    (/\ headers # <<>>
     /\ options.form # "Headers"
     /\ \A i \in 1..Len(options.entries) : options.entries[i][1] # "content-type") =>
        /\ ~Supplies(options, "Authorization") =>
              HeaderSent(headers, "Authorization") =
                 (IF store.access_token # NULL
                  THEN "Bearer " \o store.access_token ELSE NULL)
        /\ ~Supplies(options, "Content-Type") =>
              HeaderSent(headers, "Content-Type") = "application/json"
        /\ \A i \in 1..Len(options.entries) :
              HeaderSent(headers, options.entries[i][1]) = options.entries[i][2]

====
